---------------------------- MODULE Spec2Model ----------------------------
(***************************************************************************)
(* A model of the price crawler of crawler.py: the chain of fetch          *)
(* strategies of fetch_tefas_price / fetch_tefas_price_fallback, the file  *)
(* store written by save_price and save_error_page, and the loop of main.  *)
(*                                                                         *)
(* A price is a float of Python, kept as the decimal Python prints for it: *)
(* 12.5 is P(12, 500000).                                                  *)
(* Texts are sequences of one-character strings.                           *)
(* Dates are day numbers 1..MaxDay, ordered as the ISO dates they stand    *)
(* for.                                                                    *)
(*                                                                         *)
(* Spec is the runs of main over the funds of MARKETS.  A behaviour of it  *)
(* records no directory and follows every fund through every answer of     *)
(* its upstreams and every exception of save_price and save_error_page, or *)
(* it records the directory of one fund, any of the seven, and follows     *)
(* that fund, with every failure of the reads, listings, opens and writes  *)
(* in its directory, which an earlier run may have left with a price.      *)
(* StoreSpec is the calls of ensure_directories, save_price and            *)
(* save_error_page on the directory of a ticker, in any order, with any    *)
(* date and with every failure of their opens, reads and writes.           *)
(***************************************************************************)
EXTENDS Integers, Sequences, FiniteSets, TLC

(***************************************************************************)
(* Bounds of the model.                                                    *)
(***************************************************************************)
\* the days a behaviour spans
MaxDay == 2
\* the runs of main in a behaviour
MaxRuns == 1
\* the direct calls of save_price and save_error_page in a behaviour
MaxCalls == 3
\* the ticker directories whose files a behaviour records
MaxObserved == 1

Dates == 1..MaxDay

(***************************************************************************)
(* The characters of texts.                                                *)
(***************************************************************************)
\* A character is a string of one character; a character that a string of
\* this notation cannot hold is the string of its code point, "U+0660".
\*
\* The decimal digits: the ten ASCII digits and the digits of the other 65
\* scripts that str.isdecimal, \d of re and float() take for them (the
\* characters of the Unicode category Nd), each row from zero to nine.
DigitRows ==
    { << "0", "1", "2", "3", "4", "5", "6", "7", "8", "9" >>,
      << "U+0660", "U+0661", "U+0662", "U+0663", "U+0664", "U+0665", "U+0666",
         "U+0667", "U+0668", "U+0669" >>,
      << "۰", "۱", "۲", "۳", "۴", "۵", "۶", "۷", "۸", "۹" >>,
      << "߀", "߁", "߂", "߃", "߄", "߅", "߆", "߇", "߈", "߉" >>,
      << "U+0966", "U+0967", "U+0968", "U+0969", "U+096A", "U+096B", "U+096C",
         "U+096D", "U+096E", "U+096F" >>,
      << "০", "১", "২", "৩", "৪", "৫", "৬", "৭", "৮", "৯" >>,
      << "U+0A66", "U+0A67", "U+0A68", "U+0A69", "U+0A6A", "U+0A6B", "U+0A6C",
         "U+0A6D", "U+0A6E", "U+0A6F" >>,
      << "૦", "૧", "૨", "૩", "૪", "૫", "૬", "૭", "૮", "૯" >>,
      << "U+0B66", "U+0B67", "U+0B68", "U+0B69", "U+0B6A", "U+0B6B", "U+0B6C",
         "U+0B6D", "U+0B6E", "U+0B6F" >>,
      << "௦", "௧", "௨", "௩", "௪", "௫", "௬", "௭", "௮", "௯" >>,
      << "U+0C66", "U+0C67", "U+0C68", "U+0C69", "U+0C6A", "U+0C6B", "U+0C6C",
         "U+0C6D", "U+0C6E", "U+0C6F" >>,
      << "೦", "೧", "೨", "೩", "೪", "೫", "೬", "೭", "೮", "೯" >>,
      << "U+0D66", "U+0D67", "U+0D68", "U+0D69", "U+0D6A", "U+0D6B", "U+0D6C",
         "U+0D6D", "U+0D6E", "U+0D6F" >>,
      << "෦", "෧", "෨", "෩", "෪", "෫", "෬", "෭", "෮", "෯" >>,
      << "U+0E50", "U+0E51", "U+0E52", "U+0E53", "U+0E54", "U+0E55", "U+0E56",
         "U+0E57", "U+0E58", "U+0E59" >>,
      << "໐", "໑", "໒", "໓", "໔", "໕", "໖", "໗", "໘", "໙" >>,
      << "U+0F20", "U+0F21", "U+0F22", "U+0F23", "U+0F24", "U+0F25", "U+0F26",
         "U+0F27", "U+0F28", "U+0F29" >>,
      << "U+1040", "U+1041", "U+1042", "U+1043", "U+1044", "U+1045", "U+1046",
         "U+1047", "U+1048", "U+1049" >>,
      << "႐", "႑", "႒", "႓", "႔", "႕", "႖", "႗", "႘", "႙" >>,
      << "០", "១", "២", "៣", "៤", "៥", "៦", "៧", "៨", "៩" >>,
      << "U+1810", "U+1811", "U+1812", "U+1813", "U+1814", "U+1815", "U+1816",
         "U+1817", "U+1818", "U+1819" >>,
      << "U+1946", "U+1947", "U+1948", "U+1949", "U+194A", "U+194B", "U+194C",
         "U+194D", "U+194E", "U+194F" >>,
      << "᧐", "᧑", "᧒", "᧓", "᧔", "᧕", "᧖", "᧗", "᧘", "᧙" >>,
      << "᪀", "᪁", "᪂", "᪃", "᪄", "᪅", "᪆", "᪇", "᪈", "᪉" >>,
      << "᪐", "᪑", "᪒", "᪓", "᪔", "᪕", "᪖", "᪗", "᪘", "᪙" >>,
      << "U+1B50", "U+1B51", "U+1B52", "U+1B53", "U+1B54", "U+1B55", "U+1B56",
         "U+1B57", "U+1B58", "U+1B59" >>,
      << "᮰", "᮱", "᮲", "᮳", "᮴", "᮵", "᮶", "᮷", "᮸", "᮹" >>,
      << "U+1C40", "U+1C41", "U+1C42", "U+1C43", "U+1C44", "U+1C45", "U+1C46",
         "U+1C47", "U+1C48", "U+1C49" >>,
      << "U+1C50", "U+1C51", "U+1C52", "U+1C53", "U+1C54", "U+1C55", "U+1C56",
         "U+1C57", "U+1C58", "U+1C59" >>,
      << "U+A620", "U+A621", "U+A622", "U+A623", "U+A624", "U+A625", "U+A626",
         "U+A627", "U+A628", "U+A629" >>,
      << "꣐", "꣑", "꣒", "꣓", "꣔", "꣕", "꣖", "꣗", "꣘", "꣙" >>,
      << "U+A900", "U+A901", "U+A902", "U+A903", "U+A904", "U+A905", "U+A906",
         "U+A907", "U+A908", "U+A909" >>,
      << "꧐", "꧑", "꧒", "꧓", "꧔", "꧕", "꧖", "꧗", "꧘", "꧙" >>,
      << "꧰", "꧱", "꧲", "꧳", "꧴", "꧵", "꧶", "꧷", "꧸", "꧹" >>,
      << "U+AA50", "U+AA51", "U+AA52", "U+AA53", "U+AA54", "U+AA55", "U+AA56",
         "U+AA57", "U+AA58", "U+AA59" >>,
      << "꯰", "꯱", "꯲", "꯳", "꯴", "꯵", "꯶", "꯷", "꯸", "꯹" >>,
      << "U+FF10", "U+FF11", "U+FF12", "U+FF13", "U+FF14", "U+FF15", "U+FF16",
         "U+FF17", "U+FF18", "U+FF19" >>,
      << "U+104A0", "U+104A1", "U+104A2", "U+104A3", "U+104A4", "U+104A5",
         "U+104A6", "U+104A7", "U+104A8", "U+104A9" >>,
      << "U+10D30", "U+10D31", "U+10D32", "U+10D33", "U+10D34", "U+10D35",
         "U+10D36", "U+10D37", "U+10D38", "U+10D39" >>,
      << "U+11066", "U+11067", "U+11068", "U+11069", "U+1106A", "U+1106B",
         "U+1106C", "U+1106D", "U+1106E", "U+1106F" >>,
      << "U+110F0", "U+110F1", "U+110F2", "U+110F3", "U+110F4", "U+110F5",
         "U+110F6", "U+110F7", "U+110F8", "U+110F9" >>,
      << "U+11136", "U+11137", "U+11138", "U+11139", "U+1113A", "U+1113B",
         "U+1113C", "U+1113D", "U+1113E", "U+1113F" >>,
      << "U+111D0", "U+111D1", "U+111D2", "U+111D3", "U+111D4", "U+111D5",
         "U+111D6", "U+111D7", "U+111D8", "U+111D9" >>,
      << "U+112F0", "U+112F1", "U+112F2", "U+112F3", "U+112F4", "U+112F5",
         "U+112F6", "U+112F7", "U+112F8", "U+112F9" >>,
      << "U+11450", "U+11451", "U+11452", "U+11453", "U+11454", "U+11455",
         "U+11456", "U+11457", "U+11458", "U+11459" >>,
      << "U+114D0", "U+114D1", "U+114D2", "U+114D3", "U+114D4", "U+114D5",
         "U+114D6", "U+114D7", "U+114D8", "U+114D9" >>,
      << "U+11650", "U+11651", "U+11652", "U+11653", "U+11654", "U+11655",
         "U+11656", "U+11657", "U+11658", "U+11659" >>,
      << "U+116C0", "U+116C1", "U+116C2", "U+116C3", "U+116C4", "U+116C5",
         "U+116C6", "U+116C7", "U+116C8", "U+116C9" >>,
      << "U+11730", "U+11731", "U+11732", "U+11733", "U+11734", "U+11735",
         "U+11736", "U+11737", "U+11738", "U+11739" >>,
      << "U+118E0", "U+118E1", "U+118E2", "U+118E3", "U+118E4", "U+118E5",
         "U+118E6", "U+118E7", "U+118E8", "U+118E9" >>,
      << "U+11950", "U+11951", "U+11952", "U+11953", "U+11954", "U+11955",
         "U+11956", "U+11957", "U+11958", "U+11959" >>,
      << "U+11C50", "U+11C51", "U+11C52", "U+11C53", "U+11C54", "U+11C55",
         "U+11C56", "U+11C57", "U+11C58", "U+11C59" >>,
      << "U+11D50", "U+11D51", "U+11D52", "U+11D53", "U+11D54", "U+11D55",
         "U+11D56", "U+11D57", "U+11D58", "U+11D59" >>,
      << "U+11DA0", "U+11DA1", "U+11DA2", "U+11DA3", "U+11DA4", "U+11DA5",
         "U+11DA6", "U+11DA7", "U+11DA8", "U+11DA9" >>,
      << "U+16A60", "U+16A61", "U+16A62", "U+16A63", "U+16A64", "U+16A65",
         "U+16A66", "U+16A67", "U+16A68", "U+16A69" >>,
      << "U+16AC0", "U+16AC1", "U+16AC2", "U+16AC3", "U+16AC4", "U+16AC5",
         "U+16AC6", "U+16AC7", "U+16AC8", "U+16AC9" >>,
      << "U+16B50", "U+16B51", "U+16B52", "U+16B53", "U+16B54", "U+16B55",
         "U+16B56", "U+16B57", "U+16B58", "U+16B59" >>,
      << "U+1D7CE", "U+1D7CF", "U+1D7D0", "U+1D7D1", "U+1D7D2", "U+1D7D3",
         "U+1D7D4", "U+1D7D5", "U+1D7D6", "U+1D7D7" >>,
      << "U+1D7D8", "U+1D7D9", "U+1D7DA", "U+1D7DB", "U+1D7DC", "U+1D7DD",
         "U+1D7DE", "U+1D7DF", "U+1D7E0", "U+1D7E1" >>,
      << "U+1D7E2", "U+1D7E3", "U+1D7E4", "U+1D7E5", "U+1D7E6", "U+1D7E7",
         "U+1D7E8", "U+1D7E9", "U+1D7EA", "U+1D7EB" >>,
      << "U+1D7EC", "U+1D7ED", "U+1D7EE", "U+1D7EF", "U+1D7F0", "U+1D7F1",
         "U+1D7F2", "U+1D7F3", "U+1D7F4", "U+1D7F5" >>,
      << "U+1D7F6", "U+1D7F7", "U+1D7F8", "U+1D7F9", "U+1D7FA", "U+1D7FB",
         "U+1D7FC", "U+1D7FD", "U+1D7FE", "U+1D7FF" >>,
      << "U+1E140", "U+1E141", "U+1E142", "U+1E143", "U+1E144", "U+1E145",
         "U+1E146", "U+1E147", "U+1E148", "U+1E149" >>,
      << "U+1E2F0", "U+1E2F1", "U+1E2F2", "U+1E2F3", "U+1E2F4", "U+1E2F5",
         "U+1E2F6", "U+1E2F7", "U+1E2F8", "U+1E2F9" >>,
      << "U+1E950", "U+1E951", "U+1E952", "U+1E953", "U+1E954", "U+1E955",
         "U+1E956", "U+1E957", "U+1E958", "U+1E959" >>,
      << "U+1FBF0", "U+1FBF1", "U+1FBF2", "U+1FBF3", "U+1FBF4", "U+1FBF5",
         "U+1FBF6", "U+1FBF7", "U+1FBF8", "U+1FBF9" >> }
Digits == UNION {{row[i] : i \in 1..10} : row \in DigitRows}

\* the ASCII digits, the only ones of a JSON number
AsciiDigits == {"0", "1", "2", "3", "4", "5", "6", "7", "8", "9"}

\* the value of a decimal digit
DigitVal(c) ==
    CASE c = "0" -> 0 [] c = "1" -> 1 [] c = "2" -> 2 [] c = "3" -> 3
      [] c = "4" -> 4 [] c = "5" -> 5 [] c = "6" -> 6 [] c = "7" -> 7
      [] c = "8" -> 8 [] c = "9" -> 9
      [] OTHER -> (CHOOSE i \in 1..10 : \E row \in DigitRows : row[i] = c) - 1

\* the characters str.isdigit takes besides the decimal digits: superscripts,
\* subscripts, digits in circles, in parentheses or with a full stop or a
\* comma, and the digits of Ethiopic, Kharoshthi, Rumi and Brahmi
OtherDigits ==
    { "²", "³", "¹", "U+1369", "U+136A", "U+136B", "U+136C", "U+136D",
      "U+136E", "U+136F", "U+1370", "U+1371", "᧚", "U+2070", "U+2074",
      "U+2075", "U+2076", "U+2077", "U+2078", "U+2079", "₀", "₁", "₂", "₃",
      "₄", "₅", "₆", "₇", "₈", "₉", "U+2460", "U+2461", "U+2462", "U+2463",
      "U+2464", "U+2465", "U+2466", "U+2467", "U+2468", "U+2474", "U+2475",
      "U+2476", "U+2477", "U+2478", "U+2479", "U+247A", "U+247B", "U+247C",
      "⒈", "⒉", "⒊", "⒋", "⒌", "⒍", "⒎", "⒏", "⒐", "⓪", "⓵", "⓶", "⓷", "⓸",
      "⓹", "⓺", "⓻", "⓼", "⓽", "⓿", "U+2776", "U+2777", "U+2778", "U+2779",
      "U+277A", "U+277B", "U+277C", "U+277D", "U+277E", "➀", "➁", "➂", "➃",
      "➄", "➅", "➆", "➇", "➈", "➊", "➋", "➌", "➍", "➎", "➏", "➐", "➑", "➒",
      "U+10A40", "U+10A41", "U+10A42", "U+10A43", "U+10E60", "U+10E61",
      "U+10E62", "U+10E63", "U+10E64", "U+10E65", "U+10E66", "U+10E67",
      "U+10E68", "U+11052", "U+11053", "U+11054", "U+11055", "U+11056",
      "U+11057", "U+11058", "U+11059", "U+1105A", "U+1F100", "U+1F101",
      "U+1F102", "U+1F103", "U+1F104", "U+1F105", "U+1F106", "U+1F107",
      "U+1F108", "U+1F109", "U+1F10A" }

\* the whitespace str.strip removes, the characters of str.isspace: tab,
\* newline, vertical tab, form feed, carriage return, the four separators
\* U+001C..U+001F, blank, next line (U+0085), the no-break space, the ogham
\* space mark and the spaces and separators from U+2000 on
Whitespace ==
    { "\t", "\n", "", "\f", "\r", "", "", "", "", " ", "", " ", " ",
      "U+2000", "U+2001", "U+2002", "U+2003", "U+2004", "U+2005", "U+2006",
      "U+2007", "U+2008", "U+2009", "U+200A", "U+2028", "U+2029", "U+202F",
      "U+205F", "U+3000" }

\* the whitespace float() skips around a number: not the four separators
FloatWhitespace == Whitespace \ {"", "", "", ""}

(***************************************************************************)
(* Numbers.                                                                *)
(*                                                                         *)
(* A float of Python is a binary double.  The model keeps a double as the  *)
(* decimal Python prints for it, the shortest decimal that reads back as   *)
(* the same double (repr): its sign, the digits of its integer part and    *)
(* its decimals.  Two doubles are in the order of these decimals.  The     *)
(* digits of a number are the integers 0..9.                               *)
(***************************************************************************)
\* 10 ** n
RECURSIVE Pow10(_)
Pow10(n) == IF n = 0 THEN 1 ELSE 10 * Pow10(n - 1)

\* n zeros, none for n below 1
Zeros(n) == [i \in 1..(IF n > 0 THEN n ELSE 0) |-> 0]

\* the position of the first and of the last digit of s that is not zero
\* (0: s holds zeros only)
FirstNonZero(s) ==
    IF \A i \in DOMAIN s : s[i] = 0 THEN 0
    ELSE CHOOSE i \in DOMAIN s : s[i] # 0 /\ \A j \in 1..(i - 1) : s[j] = 0
LastNonZero(s) ==
    IF \A i \in DOMAIN s : s[i] = 0 THEN 0
    ELSE CHOOSE i \in DOMAIN s :
             s[i] # 0 /\ \A j \in (i + 1)..Len(s) : s[j] = 0

\* a sequence of digits without its leading zeros, without its trailing zeros
DropLeadingZeros(s) ==
    IF FirstNonZero(s) = 0 THEN << >> ELSE SubSeq(s, FirstNonZero(s), Len(s))
DropTrailingZeros(s) == SubSeq(s, 1, LastNonZero(s))

\* the digits of a natural number, and the number of at most nine digits
RECURSIVE NatDigits(_)
NatDigits(n) == IF n = 0 THEN << >> ELSE Append(NatDigits(n \div 10), n % 10)
RECURSIVE DigitsValue(_)
DigitsValue(s) ==
    IF s = << >> THEN 0
    ELSE 10 * DigitsValue(SubSeq(s, 1, Len(s) - 1)) + s[Len(s)]

\* a < b for two sequences of digits of one length
LexLt(a, b) ==
    \E i \in DOMAIN a : a[i] < b[i] /\ \A j \in 1..(i - 1) : a[j] = b[j]

\* a < b for two naturals given by their digits, without leading zeros
NatLt(a, b) == Len(a) < Len(b) \/ (Len(a) = Len(b) /\ LexLt(a, b))

\* r1 < r2 for two sequences of decimals read as 0.r1 and 0.r2
DecimalsLt(r1, r2) ==
    LexLt(r1 \o Zeros(Len(r2) - Len(r1)), r2 \o Zeros(Len(r1) - Len(r2)))

\* the position of the last digit of s that is not 9 (0: s holds nines only)
LastNonNine(s) ==
    IF \A i \in DOMAIN s : s[i] = 9 THEN 0
    ELSE CHOOSE i \in DOMAIN s :
             s[i] # 9 /\ \A j \in (i + 1)..Len(s) : s[j] = 9

\* s with the digit at position p raised by one and zeros after it
Carry(s, p) ==
    [i \in DOMAIN s |-> IF i < p THEN s[i] ELSE IF i = p THEN s[i] + 1 ELSE 0]

\* n + 1 for a natural given by its digits, which may start with zeros
NatSucc(s) ==
    IF LastNonNine(s) = 0 THEN << 1 >> \o Zeros(Len(s))
    ELSE Carry(s, LastNonNine(s))

\* a finite float: its sign, the digits of its integer part without leading
\* zeros and its decimals without trailing zeros
Float(neg, whole, decimals) ==
    [kind |-> "finite", neg |-> neg, whole |-> whole, decimals |-> decimals]

\* a price of at most six decimals, from its integer part and its
\* millionths: 12.5 is P(12, 500000)
P(i, f) ==
    Float(FALSE, NatDigits(i),
          DropTrailingZeros([k \in 1..6 |-> (f \div Pow10(6 - k)) % 10]))

\* float('inf') and float('-inf'), float('nan')
Infinity(neg) ==
    [kind |-> "inf", neg |-> neg, whole |-> << >>, decimals |-> << >>]
NaN == [kind |-> "nan", neg |-> FALSE, whole |-> << >>, decimals |-> << >>]

\* the result of a conversion that raised ValueError, and Python's None
ParseError ==
    [kind |-> "none", neg |-> FALSE, whole |-> << >>, decimals |-> << >>]
NoPrice == ParseError

IsNumber(x) == x.kind = "finite"
IsZero(x) == x.kind = "finite" /\ x.whole = << >> /\ x.decimals = << >>

\* |a| < |b| for two floats that are finite or infinite
MagnitudeLt(a, b) ==
    IF a.kind = "inf" THEN FALSE
    ELSE IF b.kind = "inf" THEN TRUE
    ELSE \/ NatLt(a.whole, b.whole)
         \/ a.whole = b.whole /\ DecimalsLt(a.decimals, b.decimals)

\* a < b of Python for two floats: False when one of them is nan
PriceLt(a, b) ==
    /\ a.kind \in {"finite", "inf"} /\ b.kind \in {"finite", "inf"}
    /\ IF a.neg /\ ~b.neg THEN ~(IsZero(a) /\ IsZero(b))
       ELSE IF ~a.neg /\ b.neg THEN FALSE
       ELSE IF ~a.neg THEN MagnitudeLt(a, b)
       ELSE MagnitudeLt(b, a)

(***************************************************************************)
(* Decimals of any length, and the double nearest to one.                  *)
(***************************************************************************)
\* a decimal that is not negative: the digits before and after its point
Dec(w, d) == [w |-> DropLeadingZeros(w), d |-> DropTrailingZeros(d)]

\* the decimal of the digits s with the point after its n-th digit
SplitAt(s, n) == Dec(SubSeq(s, 1, n), SubSeq(s, n + 1, Len(s)))

\* sig * 10 ** q for digits sig
Place(sig, q) ==
    IF q >= 0 THEN Dec(sig \o Zeros(q), << >>)
    ELSE IF 0 - q >= Len(sig) THEN Dec(<< >>, Zeros(0 - q - Len(sig)) \o sig)
    ELSE SplitAt(sig, Len(sig) + q)

\* the digits of 2 * s: the carry into a digit is 1 exactly when the digit
\* after it is 5 or more; s starts with a zero
DoubledDigit(s, i) ==
    ((2 * s[i]) % 10) + (IF i < Len(s) /\ s[i + 1] >= 5 THEN 1 ELSE 0)
DoubleDigits(s) == [i \in DOMAIN s |-> DoubledDigit(s, i)]

\* the digits of s / 2: a digit takes 10 from the digit before it when that
\* one is odd; s ends with a zero
HalvedDigit(s, i) ==
    (s[i] + (IF i > 1 /\ s[i - 1] % 2 = 1 THEN 10 ELSE 0)) \div 2
HalveDigits(s) == [i \in DOMAIN s |-> HalvedDigit(s, i)]

\* 2 * x and x / 2
DecDouble(x) == SplitAt(DoubleDigits(<< 0 >> \o x.w \o x.d), Len(x.w) + 1)
DecHalve(x) == SplitAt(HalveDigits(x.w \o x.d \o << 0 >>), Len(x.w))

\* x * 2 ** k, k of either sign
RECURSIVE Times2(_, _)
Times2(x, k) ==
    IF (x.w = << >> /\ x.d = << >>) \/ k = 0 THEN x
    ELSE IF k = 1 THEN DecDouble(x)
    ELSE IF k = -1 THEN DecHalve(x)
    ELSE Times2(Times2(x, k - k \div 2), k \div 2)

\* 2 ** 52 and 2 ** 53: a double is m * 2 ** -k with m below 2 ** 53, and
\* with m from 2 ** 52 on unless k is MaxShift (the subnormal doubles)
TwoTo52 == << 4, 5, 0, 3, 5, 9, 9, 6, 2, 7, 3, 7, 0, 4, 9, 6 >>
TwoTo53 == << 9, 0, 0, 7, 1, 9, 9, 2, 5, 4, 7, 4, 0, 9, 9, 2 >>
MaxShift == 1074
\* the doubles of 2 ** 1024 and more do not exist
MinShift == -971

Bin(m, k) == [m |-> m, k |-> k]

\* the p with 10 ** (p - 1) <= x < 10 ** p, for x # 0
Magnitude(x) == IF x.w # << >> THEN Len(x.w) ELSE 1 - FirstNonZero(x.d)

\* a u with 10 ** p <= 2 ** u
Log2Bound(p) ==
    IF p >= 0 THEN (p * 33220) \div 10000 + 1
    ELSE 0 - (((0 - p) * 33219) \div 10000)

\* y doubled until it is 2 ** 52 or more, or is in units of 2 ** -MaxShift
RECURSIVE Grow(_, _)
Grow(y, k) ==
    IF k >= MaxShift \/ ~NatLt(y.w, TwoTo52) THEN [y |-> y, k |-> k]
    ELSE Grow(DecDouble(y), k + 1)

\* x in the units of the doubles around it
FirstShift(x) ==
    IF 52 - Log2Bound(Magnitude(x)) > MaxShift THEN MaxShift
    ELSE 52 - Log2Bound(Magnitude(x))
InUnits(x) == Grow(Times2(x, FirstShift(x)), FirstShift(x))

\* whether the decimals d after the digits w round up: to the nearest, and
\* of two that are as near to the even one
RoundsUp(w, d) ==
    /\ d # << >>
    /\ \/ d[1] > 5
       \/ d[1] = 5 /\ Len(d) > 1
       \/ d = << 5 >> /\ w # << >> /\ w[Len(w)] % 2 = 1
RoundToInteger(y) ==
    IF RoundsUp(y.w, y.d) THEN DropLeadingZeros(NatSucc(y.w)) ELSE y.w

\* m * 2 ** -k with m below 2 ** 53
Normal(m, k) == IF m = TwoTo53 THEN Bin(TwoTo52, k - 1) ELSE Bin(m, k)
Rounded(u) == Normal(RoundToInteger(u.y), u.k)

\* the double nearest to the decimal x # 0 (m = << >>: zero; k < MinShift:
\* none, the decimal is beyond the doubles)
ToDouble(x) == Rounded(InUnits(x))

\* the decimal a double is
Exact(b) == Times2(Dec(b.m, << >>), 0 - b.k)

\* The decimals of n significant digits next to the decimal e # 0: the one
\* not above it, and the one above it
AllDigits(e) == e.w \o e.d
Lead(e) == FirstNonZero(AllDigits(e)) - 1
Below(e, n) ==
    Place(SubSeq(AllDigits(e) \o Zeros(n), Lead(e) + 1, Lead(e) + n),
          Len(e.w) - Lead(e) - n)
Above(e, n) ==
    Place(NatSucc(SubSeq(AllDigits(e) \o Zeros(n), Lead(e) + 1, Lead(e) + n)),
          Len(e.w) - Lead(e) - n)
\* whether e is nearer to Above(e, n) than to Below(e, n), or as near to
\* both with Above(e, n) the even one
NearerAbove(e, n) ==
    RoundsUp(SubSeq(AllDigits(e), Lead(e) + 1, Lead(e) + n),
             DropTrailingZeros(SubSeq(AllDigits(e), Lead(e) + n + 1,
                                      Len(AllDigits(e)))))

\* whether a decimal of n digits next to the decimal e of the double b reads
\* back as b
ReadsBack(c, b) == ToDouble(c) = b
Enough(b, e, n) == ReadsBack(Below(e, n), b) \/ ReadsBack(Above(e, n), b)

\* the least n in lo..hi that is Enough, hi being so
RECURSIVE Shortest(_, _, _, _)
Shortest(b, e, lo, hi) ==
    IF lo = hi THEN lo
    ELSE IF Enough(b, e, (lo + hi) \div 2)
         THEN Shortest(b, e, lo, (lo + hi) \div 2)
    ELSE Shortest(b, e, (lo + hi) \div 2 + 1, hi)

\* of the decimals of n digits that read back as b, the nearest to it
Nearest(b, e, n) ==
    IF ~ReadsBack(Below(e, n), b) THEN Above(e, n)
    ELSE IF ~ReadsBack(Above(e, n), b) THEN Below(e, n)
    ELSE IF NearerAbove(e, n) THEN Above(e, n) ELSE Below(e, n)

\* repr: the shortest decimal that reads back as the double b # 0, and of
\* these the nearest to b; 17 digits always read back
MaxDigits == 17
ShortestOf(b, e) == Nearest(b, e, Shortest(b, e, 1, MaxDigits))
Repr(b) == ShortestOf(b, Exact(b))

\* the float of a double, and of the double nearest to the decimal x
FloatOfRepr(neg, r) == Float(neg, r.w, r.d)
FloatOfDouble(neg, b) ==
    IF b.m = << >> THEN Float(neg, << >>, << >>)
    ELSE IF b.k < MinShift THEN Infinity(neg)
    ELSE FloatOfRepr(neg, Repr(b))
FloatOfDecimal(neg, x) ==
    IF x.w = << >> /\ x.d = << >> THEN Float(neg, << >>, << >>)
    ELSE FloatOfDouble(neg, ToDouble(x))

\* the digits a float of up to MaxExact digits is read from are its repr
MaxExact == 15

\* the float of 0.d1d2... * 10 ** point for digits d1d2... with d1 # 0 and
\* no trailing zero: beyond 10 ** 309 float() gives inf, below 10 ** -324 it
\* gives zero
Scaled(neg, digits, point) ==
    IF point > 309 THEN Infinity(neg)
    ELSE IF point < -323 THEN Float(neg, << >>, << >>)
    ELSE IF Len(digits) <= MaxExact /\ point > -290 /\ point < 290
    THEN FloatOfRepr(neg, Place(digits, point - Len(digits)))
    ELSE FloatOfDecimal(neg, Place(digits, point - Len(digits)))

\* the decimal e with n decimals kept: rounded to the nearest, and of two
\* that are as near to the even one
KeptDigits(e, n) == e.w \o SubSeq(e.d \o Zeros(n), 1, n)
RoundDecimal(e, n) ==
    IF RoundsUp(KeptDigits(e, n), SubSeq(e.d, n + 1, Len(e.d)))
    THEN Place(NatSucc(KeptDigits(e, n)), 0 - n)
    ELSE Place(KeptDigits(e, n), 0 - n)

\* the decimal a finite float is: that of the double its repr reads as
ExactOf(x) == Exact(ToDouble(Dec(x.whole, x.decimals)))

\* round(x, n): a float of n decimals or fewer is its own rounding; inf and
\* nan round to themselves
RoundFloat(x, n) ==
    IF x.kind # "finite" \/ Len(x.decimals) <= n THEN x
    ELSE FloatOfDecimal(x.neg, RoundDecimal(ExactOf(x), n))

(***************************************************************************)
(* Texts and their conversion to numbers.                                  *)
(***************************************************************************)
\* the digits of a number from the characters that stand for them
DigitValues(s) == [i \in DOMAIN s |-> DigitVal(s[i])]

\* str.replace(c, '')
Remove(s, c) == SelectSeq(s, LAMBDA x : x # c)

\* str.replace(a, b) for one-character a and b
Replace(s, a, b) == [i \in DOMAIN s |-> IF s[i] = a THEN b ELSE s[i]]

\* c in s
Contains(s, c) == \E i \in DOMAIN s : s[i] = c

\* s without the characters of C at its two ends
StripOf(s, C) ==
    IF \A i \in DOMAIN s : s[i] \in C THEN << >>
    ELSE SubSeq(s,
                CHOOSE i \in DOMAIN s :
                    s[i] \notin C /\ \A j \in 1..(i - 1) : s[j] \in C,
                CHOOSE i \in DOMAIN s :
                    s[i] \notin C /\ \A j \in (i + 1)..Len(s) : s[j] \in C)

\* str.strip(): leading and trailing whitespace removed
Strip(s) == StripOf(s, Whitespace)

\* str.isdigit()
IsDigit(s) ==
    s # << >> /\ \A i \in DOMAIN s : s[i] \in Digits \cup OtherDigits

\* str.lower() on the letters float() looks at
Lower(c) ==
    CASE c = "I" -> "i" [] c = "N" -> "n" [] c = "F" -> "f" [] c = "T" -> "t"
      [] c = "Y" -> "y" [] c = "A" -> "a" [] c = "E" -> "e" [] OTHER -> c
LowerText(s) == [i \in DOMAIN s |-> Lower(s[i])]

\* digits with single underscores between them: the digitpart of the
\* grammar of float()
IsDigitPart(s) ==
    /\ s # << >>
    /\ s[1] \in Digits /\ s[Len(s)] \in Digits
    /\ \A i \in DOMAIN s : s[i] \in Digits \cup {"_"}
    /\ \A i \in 1..(Len(s) - 1) : ~(s[i] = "_" /\ s[i + 1] = "_")

\* the position of the first character of s that is in the set C (0: none)
FirstOf(s, C) ==
    IF \E i \in DOMAIN s : s[i] \in C
    THEN CHOOSE i \in DOMAIN s : s[i] \in C /\ \A j \in 1..(i - 1) : s[j] \notin C
    ELSE 0

\* The exponent of a float literal as float() reads it (the string to
\* double conversion of CPython): an exponent of more than MaxExpDigits
\* digits after its leading zeros, or above MaxAbsExp, is read as MaxAbsExp
MaxAbsExp == 1100000000
MaxExpDigits == 9
ExponentValue(digits) ==
    IF Len(DropLeadingZeros(digits)) > MaxExpDigits THEN MaxAbsExp
    ELSE IF DigitsValue(DropLeadingZeros(digits)) > MaxAbsExp THEN MaxAbsExp
    ELSE DigitsValue(DropLeadingZeros(digits))

\* float() raises ValueError for a literal of more than MaxLiteralDigits
\* digits from its first digit that is not zero on, or after its point
MaxLiteralDigits == 1000000000
TooLong(w, d) ==
    Len(d) > MaxLiteralDigits \/ Len(DropLeadingZeros(w \o d)) > MaxLiteralDigits

\* the sign a float literal starts with, and the literal after it
HasSign(s) == s # << >> /\ s[1] \in {"+", "-"}
IsNegative(s) == s # << >> /\ s[1] = "-"
Unsigned(s) == IF HasSign(s) THEN Tail(s) ELSE s

\* the position of the first character of s that is in C (Len(s) + 1: none)
CutAt(s, C) == IF FirstOf(s, C) = 0 THEN Len(s) + 1 ELSE FirstOf(s, C)

\* a literal up to its exponent, and its exponent from the 'e' on (empty:
\* it has none)
Mantissa(body) == SubSeq(body, 1, CutAt(body, {"e", "E"}) - 1)
ExponentPart(body) == SubSeq(body, CutAt(body, {"e", "E"}), Len(body))

\* a mantissa up to its point, and after it
WholePart(mantissa) == SubSeq(mantissa, 1, CutAt(mantissa, {"."}) - 1)
DecimalPart(mantissa) ==
    SubSeq(mantissa, CutAt(mantissa, {"."}) + 1, Len(mantissa))

\* the grammar of a float literal: digits on one side of the point at least,
\* and digits in the exponent
WellFormed(whole, decimals, exponent) ==
    /\ whole = << >> \/ IsDigitPart(whole)
    /\ decimals = << >> \/ IsDigitPart(decimals)
    /\ whole # << >> \/ decimals # << >>
    /\ exponent # << >> => IsDigitPart(Unsigned(Tail(exponent)))

\* the digits of a digitpart
DigitsOf(part) == DigitValues(Remove(part, "_"))

\* the power of ten an exponent part stands for
ExponentShift(exponent) ==
    IF exponent = << >> THEN 0
    ELSE IF IsNegative(Tail(exponent))
    THEN 0 - ExponentValue(DigitsOf(Unsigned(Tail(exponent))))
    ELSE ExponentValue(DigitsOf(Unsigned(Tail(exponent))))

\* the digits of a number from its first to its last that is not zero
SignificantDigits(all) == DropTrailingZeros(DropLeadingZeros(all))

\* the float of w.d * 10 ** shift for digits w and d
Decimal(neg, w, d, shift) ==
    IF FirstNonZero(w \o d) = 0 THEN Float(neg, << >>, << >>)
    ELSE Scaled(neg, SignificantDigits(w \o d),
                Len(w) + shift - FirstNonZero(w \o d) + 1)

\* the float of a mantissa and an exponent part, or ParseError
ParseLiteral(neg, mantissa, exponent) ==
    IF ~WellFormed(WholePart(mantissa), DecimalPart(mantissa), exponent)
    THEN ParseError
    ELSE IF TooLong(DigitsOf(WholePart(mantissa)),
                    DigitsOf(DecimalPart(mantissa)))
    THEN ParseError
    ELSE Decimal(neg, DigitsOf(WholePart(mantissa)),
                 DigitsOf(DecimalPart(mantissa)), ExponentShift(exponent))

\* the float of a text without whitespace around it and without its sign
ParseUnsigned(neg, body) ==
    IF LowerText(body) \in {<< "i", "n", "f" >>,
                            << "i", "n", "f", "i", "n", "i", "t", "y" >>}
    THEN Infinity(neg)
    ELSE IF LowerText(body) = << "n", "a", "n" >> THEN NaN
    ELSE ParseLiteral(neg, Mantissa(body), ExponentPart(body))

\* the whitespace float() skips around a literal
FloatStrip(s) == StripOf(s, FloatWhitespace)

\* float(text), or ParseError where it raises ValueError: whitespace around,
\* a sign, then inf, infinity or nan in any case, or digits with at most one
\* '.', single underscores between digits and an exponent
ParseFloat(text) ==
    ParseUnsigned(IsNegative(FloatStrip(text)), Unsigned(FloatStrip(text)))

\* float(price_text.replace('.', '').replace(',', '.'))
TurkishToFloat(text) == ParseFloat(Replace(Remove(text, "."), ",", "."))

\* float(price_text.replace(',', '.'))
CommaToFloat(text) == ParseFloat(Replace(text, ",", "."))

\* the end of the run of digits that starts at position i (i - 1 when s[i]
\* is no digit)
DigitRunEnd(s, i) ==
    IF \A j \in i..Len(s) : s[j] \in Digits THEN Len(s)
    ELSE (CHOOSE j \in i..Len(s) :
              s[j] \notin Digits /\ \A k \in i..(j - 1) : s[k] \in Digits) - 1

\* whether \d+[,.]\d+ matches at position i
MatchesAt(s, i) ==
    LET e == DigitRunEnd(s, i)
    IN  /\ e >= i
        /\ e + 2 <= Len(s)
        /\ s[e + 1] \in {",", "."}
        /\ s[e + 2] \in Digits

\* re.search(r'(\d+[,.]\d+)', s).group(1), or << >> when there is no match
NumericMatch(s) ==
    LET starts == {i \in DOMAIN s : MatchesAt(s, i)}
    IN  IF starts = {} THEN << >>
        ELSE LET i == CHOOSE k \in starts : \A j \in starts : k <= j
                 e == DigitRunEnd(s, i)
             IN  SubSeq(s, i, DigitRunEnd(s, e + 2))


(***************************************************************************)
(* Configuration: MARKETS.                                                 *)
(***************************************************************************)
\* MARKETS[market]["crawler"]
CrawlerOf(market) == IF market = "tr-tefas" THEN "tefas" ELSE "yahoo"

\* MARKETS[market]["tickers"]: the markets us, uk and eu list no ticker
MarketTickers(market) ==
    IF market = "tr-tefas"
    THEN << "HFA", "YAY", "TTE", "TI2", "AFT", "IIE", "BDS" >>
    ELSE << >>

\* The (market, ticker) pairs main iterates over, in order: the tickers of
\* tr-tefas, the only market that lists any.
Entry(m, t) == [market |-> m, ticker |-> t]
Flattened ==
    [i \in DOMAIN MarketTickers("tr-tefas") |->
        Entry("tr-tefas", MarketTickers("tr-tefas")[i])]

Tickers == {Flattened[i].ticker : i \in DOMAIN Flattened}

\* fallback_prices of fetch_tefas_price_fallback, in millionths
FallbackFunds == {"HFA", "YAY", "TTE", "TI2", "AFT"}
FallbackPrices(fund) ==
    CASE fund = "HFA" -> P(2, 435428)
      [] fund = "YAY" -> P(1, 234567)
      [] fund = "TTE" -> P(3, 456789)
      [] fund = "TI2" -> P(4, 567890)
      [] fund = "AFT" -> P(0, 678380)

(***************************************************************************)
(* What the upstreams may answer.                                          *)
(***************************************************************************)
\* a request ends with a 200 response, an error status (4xx, 5xx), a status
\* that is neither (203), an exception, or never
NetOutcomes == {"ok", "status", "accepted", "exc", "hang"}

\* the requests that pass timeout=10 to requests
HasTimeout(request) ==
    request \in {"session_main", "session_fund", "fvt", "api", "usdeur"}

\* the requests whose status is tested by raise_for_status, the others
\* being tested by status_code == 200
RaisesForStatus(request) == request \in {"primary", "yahoo"}

\* what the caller of a request sees: a request that never responds raises
\* Timeout when a timeout was passed, and blocks the caller otherwise; a
\* status that is no error passes raise_for_status and fails == 200
Deliver(outcome, request) ==
    IF outcome = "hang"
    THEN IF HasTimeout(request) THEN "exc" ELSE "blocked"
    ELSE IF outcome = "accepted"
    THEN IF RaisesForStatus(request) THEN "ok" ELSE "status"
    ELSE outcome

T_12_50 == << "1", "2", ",", "5", "0" >>
T_15000_TR == << "1", "5", ".", "0", "0", "0", ",", "0", "0" >>
T_15000 == << "1", "5", "0", "0", "0" >>
T_NA == << "n", "/", "a" >>
\* a price with a thousands dot, followed by its currency
T_15000_50_TL ==
    << "1", "5", ".", "0", "0", "0", ",", "5", "0", " ", "T", "L" >>
\* a text with two commas
T_12_50_3 == << "1", "2", ",", "5", "0", ",", "3" >>
\* a line tabulation, and a digit that is not of ASCII
T_12_5_FA == << "", "1", "۲", ",", "5" >>
PriceTexts ==
    {T_12_50, T_15000_TR, T_15000, T_NA, T_15000_50_TL, T_12_50_3, T_12_5_FA}

\* the most elements a selector scan finds in a document of the model
MaxCandidates == 2
CandidateLists ==
    UNION {[1..n -> PriceTexts] : n \in 0..MaxCandidates}

\* the element the XPath finds: none, one without text, or one with a text
NoElement == [kind |-> "none", text |-> << >>]
NoTextElement == [kind |-> "notext", text |-> << >>]
TextElement(t) == [kind |-> "text", text |-> t]
XPathElements == {NoElement, NoTextElement} \cup {TextElement(t) : t \in PriceTexts}

\* the element of a fund the behaviour does not follow
QuietElement == TextElement(T_12_50)

\* the markers of an anti-automation page a document may hold
Markers == {"none", "captcha", "challenge"}

\* data[0]["Close"] of the API's JSON bodies
ApiCloses == {P(0, 0), P(12, 500000), P(15000, 0)}
JsonList(close) == [kind |-> "json_list", close |-> close, text |-> << >>]
JsonOther == [kind |-> "json_other", close |-> P(0, 0), text |-> << >>]
\* a body of plain text, which may be a JSON number or literal
TextBody(t) == [kind |-> "text", close |-> P(0, 0), text |-> t]
ApiBodies ==
    {JsonList(c) : c \in ApiCloses} \cup {JsonOther}
        \cup {TextBody(t) : t \in {T_12_50, T_15000_TR, T_15000, T_NA}}


(***************************************************************************)
(* The strategies, as functions of what the upstream answered.             *)
(***************************************************************************)
Value(p) == [result |-> "value", price |-> p]
Nothing == [result |-> "none", price |-> NoPrice]
Raised == [result |-> "raise", price |-> NoPrice]

\* fetch_tefas_price: the XPath element, its text converted, and the
\* numeric part extracted when the conversion raises
XPathExtract(elem) ==
    IF elem.kind = "none" THEN Nothing
    ELSE IF elem.kind = "notext" THEN Raised
    ELSE LET price_text == Strip(elem.text)
             parsed == TurkishToFloat(price_text)
         IN  IF parsed # ParseError THEN Value(RoundFloat(parsed, 6))
             ELSE LET m == NumericMatch(price_text)
                  IN  IF m = << >> THEN Nothing
                      ELSE IF TurkishToFloat(m) = ParseError THEN Nothing
                      ELSE Value(RoundFloat(TurkishToFloat(m), 6))

\* fetch_tefas_price: the scan of the elements of the general selectors
RECURSIVE HeuristicScan(_)
HeuristicScan(elements) ==
    IF elements = << >> THEN Nothing
    ELSE LET price_text == Strip(Head(elements))
             parsed == TurkishToFloat(price_text)
         IN  IF /\ price_text # << >>
                /\ Contains(price_text, ",") \/ Contains(price_text, ".")
                /\ Len(price_text) < 15
                /\ parsed # ParseError
                /\ PriceLt(P(0, 500000), parsed) /\ PriceLt(parsed, P(1000, 0))
             THEN Value(RoundFloat(parsed, 6))
             ELSE HeuristicScan(Tail(elements))

\* the text of the element at which the heuristic scan returned: the first
\* element it accepts (<< >> when it accepts none)
HeuristicWinner(elements) ==
    LET accepted == {i \in DOMAIN elements :
                        HeuristicScan(<< elements[i] >>).result = "value"}
    IN  IF accepted = {} THEN << >>
        ELSE elements[CHOOSE i \in accepted : \A j \in accepted : i <= j]

\* fetch_tefas_price_fallback, option 1: the request of the main page that
\* primes the session; the fund page is requested after a 200 response
Primed == [result |-> "primed", price |-> NoPrice]
SessionPrime(mainOutcome) ==
    IF Deliver(mainOutcome, "session_main") = "exc" THEN Raised
    ELSE IF Deliver(mainOutcome, "session_main") # "ok" THEN Nothing
    ELSE Primed

\* fetch_tefas_price_fallback, option 1: the fund page fetched in the
\* primed session
SessionScrape(fundOutcome, marker, elem) ==
    IF Deliver(fundOutcome, "session_fund") = "exc" THEN Raised
    ELSE IF Deliver(fundOutcome, "session_fund") # "ok" \/ marker = "captcha"
         THEN Nothing
    ELSE IF elem.kind = "none" THEN Nothing
    ELSE IF elem.kind = "notext" THEN Raised
    ELSE IF TurkishToFloat(Strip(elem.text)) = ParseError THEN Nothing
    ELSE Value(RoundFloat(TurkishToFloat(Strip(elem.text)), 6))

\* the currency sign the FVT scan removes
Lira == "₺"

\* fetch_tefas_price_fallback, option 2: the scan of the FVT page
RECURSIVE FvtScan(_)
FvtScan(elements) ==
    IF elements = << >> THEN Nothing
    ELSE LET stripped == Strip(Remove(Strip(Head(elements)), Lira))
             m == NumericMatch(stripped)
             price_text == IF m # << >> THEN m ELSE stripped
             parsed == TurkishToFloat(price_text)
         IN  IF /\ stripped # << >>
                /\ Contains(stripped, ",") \/ Contains(stripped, ".")
                /\ parsed # ParseError
                /\ PriceLt(P(0, 100000), parsed) /\ PriceLt(parsed, P(10000, 0))
             THEN Value(RoundFloat(parsed, 6))
             ELSE FvtScan(Tail(elements))

\* the text of the element at which the FVT scan returned
FvtWinner(elements) ==
    LET accepted == {i \in DOMAIN elements :
                        FvtScan(<< elements[i] >>).result = "value"}
    IN  IF accepted = {} THEN << >>
        ELSE elements[CHOOSE i \in accepted : \A j \in accepted : i <= j]

FvtFetch(outcome, elements) ==
    IF Deliver(outcome, "fvt") = "exc" THEN Raised
    ELSE IF Deliver(outcome, "fvt") # "ok" THEN Nothing
    ELSE FvtScan(elements)

\* a JSON number: -?(0|[1-9][0-9]*)(.[0-9]+)?([eE][+-]?[0-9]+)?, of ASCII
\* digits
IsJsonNumber(s) ==
    LET body == IF s # << >> /\ s[1] = "-" THEN Tail(s) ELSE s
        e == FirstOf(body, {"e", "E"})
        mantissa == IF e = 0 THEN body ELSE SubSeq(body, 1, e - 1)
        exponent == IF e = 0 THEN << >> ELSE SubSeq(body, e + 1, Len(body))
        expDigits == IF exponent # << >> /\ exponent[1] \in {"+", "-"}
                     THEN Tail(exponent) ELSE exponent
        dot == FirstOf(mantissa, {"."})
        whole == IF dot = 0 THEN mantissa ELSE SubSeq(mantissa, 1, dot - 1)
        decimals == IF dot = 0 THEN << >>
                    ELSE SubSeq(mantissa, dot + 1, Len(mantissa))
        allDigits(t) == t # << >> /\ \A i \in DOMAIN t : t[i] \in AsciiDigits
    IN  /\ allDigits(whole)
        /\ Len(whole) > 1 => whole[1] # "0"
        /\ dot # 0 => allDigits(decimals)
        /\ e # 0 => allDigits(expDigits)

\* the whitespace json.loads skips around a document
JsonWhitespace == {" ", "\t", "\n", "\r"}
RECURSIVE JsonStrip(_)
JsonStrip(s) ==
    IF s = << >> THEN s
    ELSE IF Head(s) \in JsonWhitespace THEN JsonStrip(Tail(s))
    ELSE IF s[Len(s)] \in JsonWhitespace
         THEN JsonStrip(SubSeq(s, 1, Len(s) - 1))
    ELSE s

\* whether response.json() accepts a text of the model that holds no
\* bracket, brace or quote: a number, or a literal of the json module
IsJsonScalar(text) ==
    LET s == JsonStrip(text)
    IN  \/ IsJsonNumber(s)
        \/ s \in { << "N", "a", "N" >>,
                    << "I", "n", "f", "i", "n", "i", "t", "y" >>,
                    << "-", "I", "n", "f", "i", "n", "i", "t", "y" >>,
                    << "t", "r", "u", "e" >>, << "f", "a", "l", "s", "e" >>,
                    << "n", "u", "l", "l" >> }

\* fetch_tefas_price_fallback, option 3: the finans.dokuz.gen.tr API
ApiFetch(outcome, body) ==
    IF Deliver(outcome, "api") = "exc" THEN Raised
    ELSE IF Deliver(outcome, "api") # "ok" THEN Nothing
    ELSE IF body.kind = "json_list"
         THEN IF PriceLt(P(0, 0), body.close)
              THEN Value(RoundFloat(body.close, 6)) ELSE Nothing
    ELSE IF body.kind = "json_other" \/ IsJsonScalar(body.text) THEN Nothing
    ELSE LET price_text == Strip(body.text)
             parsed == CommaToFloat(price_text)
         IN  IF /\ price_text # << >>
                /\ \/ Contains(price_text, ",")
                   \/ Contains(price_text, ".")
                   \/ IsDigit(price_text)
                /\ parsed # ParseError
                /\ PriceLt(P(0, 0), parsed)
             THEN Value(RoundFloat(parsed, 6))
             ELSE Nothing

\* fetch_tefas_price_fallback, option 4: the usd-eur-fund-parsed service
UsdEurFetch(outcome, text) ==
    IF Deliver(outcome, "usdeur") = "exc" THEN Raised
    ELSE IF Deliver(outcome, "usdeur") # "ok" THEN Nothing
    ELSE LET parsed == CommaToFloat(Strip(text))
         IN  IF parsed # ParseError /\ PriceLt(P(0, 0), parsed)
             THEN Value(RoundFloat(parsed, 6))
             ELSE Nothing

\* fetch_tefas_price_fallback, option 5: the hardcoded table
HardcodedPrice(fund_code) ==
    IF fund_code \in FallbackFunds THEN Value(FallbackPrices(fund_code))
    ELSE Nothing

\* a call that never returns: its request, made without timeout, is never
\* answered
Blocked == [result |-> "blocked", price |-> NoPrice]

\* fetch_yahoo_price, which fetch_price calls for the markets whose crawler
\* is yahoo: round(float(price), 2), None on any exception; raw is
\* regularMarketPrice of the chart, NoPrice when the field is missing
YahooExtract(outcome, raw) ==
    IF Deliver(outcome, "yahoo") = "blocked" THEN Blocked
    ELSE IF Deliver(outcome, "yahoo") # "ok" \/ raw = NoPrice THEN Nothing
    ELSE Value(RoundFloat(raw, 2))

\* What the strategies return, for every answer of the upstreams.
XPathResults == [elem \in XPathElements |-> XPathExtract(elem)]
HeuristicResults ==
    [elements \in CandidateLists |-> HeuristicScan(elements)]
HeuristicWinners ==
    [elements \in CandidateLists |-> HeuristicWinner(elements)]
PrimeResults == [m \in NetOutcomes |-> SessionPrime(m)]
SessionResults ==
    [f \in NetOutcomes, marker \in Markers, elem \in XPathElements |->
        SessionScrape(f, marker, elem)]
FvtResults ==
    [outcome \in NetOutcomes, elements \in CandidateLists |->
        FvtFetch(outcome, elements)]
FvtWinners == [elements \in CandidateLists |-> FvtWinner(elements)]
ApiResults ==
    [outcome \in NetOutcomes, body \in ApiBodies |-> ApiFetch(outcome, body)]
UsdEurResults ==
    [outcome \in NetOutcomes, text \in PriceTexts |->
        UsdEurFetch(outcome, text)]
HardcodedResults == [fund_code \in Tickers |-> HardcodedPrice(fund_code)]

(***************************************************************************)
(* The file store: DATA_DIR/<market>/<ticker>/.                            *)
(***************************************************************************)
\* The contents of a file.  date 0 shows as "Unknown"; cut: the file holds
\* the beginning of this content only, and not nothing, the write to it
\* having raised; part: the price shown is the one of a cut latest.txt.
File(kind, p, d) ==
    [kind |-> kind, price |-> p, date |-> d, cut |-> FALSE, part |-> FALSE]
NoFile == File("absent", NoPrice, 0)
PriceTxt(p) == File("price", p, 0)
ErrorTxt == File("error", NoPrice, 0)
PricePage(p, d) == File("price_page", p, d)
DegradedPage(latest, d) ==
    [File("degraded_page", latest.price, d) EXCEPT !.part = latest.cut]
MinimalErrorPage(d) == File("error_page", NoPrice, d)
\* a file that open(path, "w") has created or truncated and that nothing
\* was written to
EmptyFile == File("empty", NoPrice, 0)
\* a file that holds the beginning of a content
Cut(content) == [content EXCEPT !.cut = TRUE]

\* a ticker directory without files: latest.txt, latest.html, <date>.txt
\* and <date>.html, and the dated html files from the oldest modification
\* time to the newest
EmptyDir ==
    [latest_txt |-> NoFile, latest_html |-> NoFile,
     txt |-> [d \in Dates |-> NoFile], html |-> [d \in Dates |-> NoFile],
     mtime |-> << >>]

\* Touch listing the file once more for every write
Touch_Duplicating(mtime, date) == Append(mtime, date)

\* the modification order after <date>.html is opened for writing
Touch(mtime, date) == Append(SelectSeq(mtime, LAMBDA x : x # date), date)

\* The steps of a function that writes its files one after the other:
\* step 2k - 1 is the open of the k-th file, step 2k the write to it.  A
\* fault is the step that raises (at, 0 when none does) and, for a write,
\* whether a beginning of the content reached the file (cut).
Fault(at, cut) == [at |-> at, cut |-> cut]
NoFault == Fault(0, FALSE)
FaultsOf(n) ==
    {Fault(at, FALSE) : at \in 1..(2 * n)}
        \cup {Fault(2 * k, TRUE) : k \in 1..n}
Opened(k, fault) == fault.at = 0 \/ fault.at >= 2 * k
Written(k, fault) == fault.at = 0 \/ fault.at > 2 * k

\* the k-th file after the call: with its content; empty or cut, when the
\* write raised after the open had truncated it; or as it was before
FileAfter(before, content, k, fault) ==
    IF Written(k, fault) THEN content
    ELSE IF Opened(k, fault)
         THEN IF fault.cut THEN Cut(content) ELSE EmptyFile
    ELSE before

\* save_price: <date>.html, latest.html, <date>.txt and latest.txt, opened
\* and written in this order
SavePrice(dir, price, date, fault) ==
    [latest_txt |-> FileAfter(dir.latest_txt, PriceTxt(price), 4, fault),
     latest_html |->
         FileAfter(dir.latest_html, PricePage(price, date), 2, fault),
     txt |-> [dir.txt EXCEPT
                 ![date] = FileAfter(@, PriceTxt(price), 3, fault)],
     html |-> [dir.html EXCEPT
                  ![date] = FileAfter(@, PricePage(price, date), 1, fault)],
     mtime |-> IF Opened(1, fault) THEN Touch(dir.mtime, date)
               ELSE dir.mtime]

\* the directory is as a completed save_price(market, ticker, price, date)
\* leaves it: the four files hold the price and <date>.html is the newest
JustSaved(dir, price, date) ==
    /\ dir.txt[date] = PriceTxt(price)
    /\ dir.html[date] = PricePage(price, date)
    /\ dir.latest_txt = PriceTxt(price)
    /\ dir.latest_html = PricePage(price, date)
    /\ dir.mtime # << >> /\ dir.mtime[Len(dir.mtime)] = date

\* what a call save_price(market, ticker, price, date) finds in the
\* directory: the state the same call left ("same"), a record of the date
\* with another price ("different"), or neither ("first")
Resave(dir, price, date) ==
    IF JustSaved(dir, price, date) THEN "same"
    ELSE IF dir.txt[date].kind = "price" /\ dir.txt[date].price # price
         THEN "different"
    ELSE "first"

\* a completed call save_price(market, ticker, price, date) and what it found
SaveCall(t, d, p, found) ==
    [ticker |-> t, date |-> d, price |-> p, found |-> found]
NoCall == SaveCall("", 0, NoPrice, "")

\* the steps of save_price that may raise: the opens of its four files (the
\* first one standing for everything before it as well: the print of main,
\* the read of the template) and the writes to them
FailPoints == FaultsOf(4)

\* the open of the first file, which raises FileNotFoundError in a
\* directory that does not exist
FirstOpen == Fault(1, FALSE)

\* How a call of save_error_page goes: it raises before its try blocks and
\* touches nothing; or it reads latest.txt, which may raise (readable),
\* lists the dated pages by modification time, which may raise (listed),
\* and writes <date>.html and <date>.txt, where a step may raise (fault,
\* the first open standing for the read of the template as well); what
\* raises inside its try blocks is caught there
ErrorPageMode(raises, readable, listed, fault) ==
    [raises |-> raises, readable |-> readable, listed |-> listed,
     fault |-> fault]
PageFaults == {NoFault} \cup FaultsOf(2)
ErrorPageModes ==
    {ErrorPageMode(TRUE, TRUE, TRUE, NoFault)}
        \cup {ErrorPageMode(FALSE, TRUE, TRUE, f) : f \in PageFaults}
        \cup {ErrorPageMode(FALSE, FALSE, FALSE, f) : f \in PageFaults}
        \cup {ErrorPageMode(FALSE, TRUE, FALSE, f) : f \in PageFaults}

\* save_error_page: whether latest_price is true, that is latest.txt was
\* read and holds more than whitespace
HasLatestPrice(dir, mode) ==
    mode.readable /\ dir.latest_txt.kind \notin {"absent", "empty"}

\* save_error_page: last_success_date, 0 for None; now is the day of its
\* second reading of the clock
LastSuccessDate(dir, now, mode) ==
    LET date_files == SelectSeq(dir.mtime, LAMBDA d : d # now)
    IN  IF dir.latest_txt.kind = "absent" \/ ~mode.listed
           \/ date_files = << >>
        THEN 0
        ELSE date_files[Len(date_files)]

\* save_error_page: the page it renders
ErrorPage(dir, date, now, mode) ==
    IF HasLatestPrice(dir, mode)
    THEN DegradedPage(dir.latest_txt, LastSuccessDate(dir, now, mode))
    ELSE MinimalErrorPage(date)

\* save_error_page: the files it writes; date is the day of its first
\* reading of the clock
SaveErrorPage(dir, date, now, mode) ==
    IF mode.raises THEN dir
    ELSE [dir EXCEPT
             !.html[date] =
                 FileAfter(@, ErrorPage(dir, date, now, mode), 1, mode.fault),
             !.mtime = IF Opened(1, mode.fault) THEN Touch(@, date) ELSE @,
             !.txt[date] = FileAfter(@, ErrorTxt, 2, mode.fault)]

(***************************************************************************)
(* The state.                                                              *)
(***************************************************************************)
VARIABLES
    observed,       \* the tickers whose directories the behaviour records
    dirs,           \* the recorded directories that exist
    today,          \* datetime.now(), as a day
    runs,           \* the runs of main started
    calls,          \* the direct calls of save_price and save_error_page made
    pc,             \* where main is: idle, loop, a strategy, save, blocked,
                    \* crashed
    idx,            \* main: the position in MARKETS of the current ticker
    success_count,  \* main: success_count
    error_count,    \* main: error_count
    slept,          \* main: the calls of time.sleep(2) in this run
    processed,      \* main: the tickers handled in this run, in order
    page,           \* the marker of the document fetch_tefas_price fetched
    price,          \* what fetch_price returned
    source,         \* the strategy that produced price
    attempts,       \* the strategies run for the current ticker, in order
    skipped,        \* what the heuristic scan finds in the document of
                    \* fetch_tefas_price, when the XPath raised and the scan
                    \* was not run
    files,          \* the recorded ticker directories
    history,        \* per recorded ticker and date, the price of the last
                    \* completed save_price for that date
    latest_date,    \* per recorded ticker, the date of the last completed
                    \* save_price (0: none)
    resave,         \* the call of save_price the last step completed in a
                    \* recorded directory, and what it found there
    origin          \* the text price was converted from, and the marker of
                    \* the TEFAS document that held it

vars == << observed, dirs, today, runs, calls, pc, idx, success_count,
           error_count, slept, processed, page, price, source, attempts,
           skipped, files, history, latest_date, resave, origin >>

chainVars == << page, price, source, attempts, skipped, origin >>
storeVars == << files, history, latest_date, resave >>
mainVars == << idx, success_count, error_count, slept, processed >>
envVars == << observed, dirs, today, runs, calls >>

\* where a price came from: the text and the marker of its document ("":
\* no TEFAS document)
Origin(text, marker) == [text |-> text, marker |-> marker]
NoOrigin == Origin(<< >>, "")

\* the prices passed to save_price
BackfillPrices == {P(12, 500000), P(13, 0)}

\* a ticker directory before the first call: without files, or as a
\* completed save_price of an earlier run left it that day
EarlierDir(earlier) ==
    IF earlier = NoPrice THEN EmptyDir ELSE SavePrice(EmptyDir, earlier, 1, NoFault)

\* The state before the first call.  A behaviour records no directory, or
\* the directory of one fund, any of the seven.  The recorded directory
\* does not exist, or an earlier run has saved a price in it that day.
Init ==
    /\ observed \in {S \in SUBSET Tickers : Cardinality(S) <= MaxObserved}
    /\ \E earlier \in {NoPrice} \cup BackfillPrices :
          /\ dirs = IF earlier = NoPrice THEN {} ELSE observed
          /\ files = [t \in observed |-> EarlierDir(earlier)]
          /\ history = [t \in observed |->
                           [d \in Dates |-> IF d = 1 THEN earlier ELSE NoPrice]]
          /\ latest_date = [t \in observed |->
                               IF earlier = NoPrice THEN 0 ELSE 1]
    /\ today = 1
    /\ runs = 0
    /\ calls = 0
    /\ pc = "idle"
    /\ idx = 1
    /\ success_count = 0
    /\ error_count = 0
    /\ slept = 0
    /\ processed = << >>
    /\ page = ""
    /\ price = NoPrice
    /\ source = ""
    /\ attempts = << >>
    /\ skipped = Nothing
    /\ resave = NoCall
    /\ origin = NoOrigin

\* the behaviours that record a directory, from before its creation
StoreInit == Init /\ observed # {} /\ dirs = {}

market == Flattened[idx].market
ticker == Flattened[idx].ticker

\* the position of a ticker in MARKETS
PositionOf(t) == CHOOSE i \in DOMAIN Flattened : Flattened[i].ticker = t

\* the days datetime.now() may give when read on or after day d
Later(d) == d..MaxDay

\* The funds a behaviour follows through every answer of their upstreams
\* and every failure of their file operations: all seven when it records no
\* directory, and the fund of the recorded directory when it records one.
\* For a fund it does not follow, the first request is answered with a
\* document without marker whose XPath span holds a price, and save_price
\* completes.
Followed == IF observed = {} THEN Tickers ELSE observed
OutcomesOf(fund) == IF fund \in Followed THEN NetOutcomes ELSE {"ok"}
MarkersOf(fund) == IF fund \in Followed THEN Markers ELSE {"none"}
XPathElementsOf(fund) ==
    IF fund \in Followed THEN XPathElements ELSE {QuietElement}

(***************************************************************************)
(* The chain of strategies.                                                *)
(***************************************************************************)
\* the strategy the code runs after strategy s has produced no value
NextStrategy(s) ==
    CASE s = "xpath" -> "heuristic"
      [] s = "heuristic" -> "session"
      [] s = "session" -> "fvt"
      [] s = "fvt" -> "api"
      [] s = "api" -> "usdeur"
      [] s = "usdeur" -> "hardcoded"
      [] s = "hardcoded" -> "save"

\* the strategy the code runs after strategy s has raised: the handler of
\* fetch_tefas_price calls the fallback, the handlers of the fallback's
\* options fall through to the next option
AfterRaise(s) ==
    IF s \in {"xpath", "heuristic"} THEN "session" ELSE NextStrategy(s)

\* where a strategy's value goes: returned to main at once
AfterValue(s) == "save"

\* strategy s has run with result r on a text of a document
From(r, text, marker) ==
    origin' = IF r.result = "value" THEN Origin(text, marker) ELSE origin

\* strategy s has run with result r
Attempt(s, r) ==
    /\ attempts' = Append(attempts, s)
    /\ IF r.result = "value"
       THEN /\ price' = r.price
            /\ source' = s
            /\ pc' = AfterValue(s)
       ELSE /\ pc' = IF r.result = "raise" THEN AfterRaise(s)
                     ELSE NextStrategy(s)
            /\ UNCHANGED << price, source >>

\* fetch_tefas_price: the request and the challenge check
TefasPrimary ==
    /\ pc = "loop" /\ idx <= Len(Flattened) /\ CrawlerOf(market) = "tefas"
    /\ \E outcome \in OutcomesOf(ticker), marker \in MarkersOf(ticker) :
          LET d == Deliver(outcome, "primary")
          IN  /\ pc' = IF d = "blocked" THEN "blocked"
                       ELSE IF d # "ok" THEN "session"
                       ELSE IF marker \in {"captcha", "challenge"} THEN "session"
                       ELSE "xpath"
              /\ page' = IF d = "blocked" THEN ""
                         ELSE IF d # "ok" THEN "unreachable"
                         ELSE marker
    /\ UNCHANGED << price, source, attempts, skipped, origin, mainVars,
                    storeVars, envVars >>

\* fetch_tefas_price: the XPath; when it raises, the scan of the general
\* selectors is not run on the document, whatever its elements hold
TefasXPath ==
    /\ pc = "xpath"
    /\ \E elem \in XPathElementsOf(ticker) :
          /\ Attempt("xpath", XPathResults[elem])
          /\ From(XPathResults[elem], elem.text, page)
          /\ IF XPathResults[elem].result = "raise"
             THEN \E elements \in CandidateLists :
                     skipped' = HeuristicResults[elements]
             ELSE skipped' = skipped
    /\ UNCHANGED << page, mainVars, storeVars, envVars >>

\* fetch_tefas_price: the general selectors
TefasHeuristic ==
    /\ pc = "heuristic"
    /\ \E elements \in CandidateLists :
          /\ Attempt("heuristic", HeuristicResults[elements])
          /\ From(HeuristicResults[elements],
                  HeuristicWinners[elements], page)
    /\ UNCHANGED << page, skipped, mainVars, storeVars, envVars >>

\* fetch_tefas_price_fallback, option 1: the main page
FallbackSessionMain ==
    /\ pc = "session"
    /\ \E m \in NetOutcomes :
          IF PrimeResults[m] = Primed
          THEN /\ pc' = "session_fund"
               /\ UNCHANGED << price, source, attempts, origin >>
          ELSE /\ Attempt("session", PrimeResults[m])
               /\ From(PrimeResults[m], << >>, "")
    /\ UNCHANGED << page, skipped, mainVars, storeVars, envVars >>

\* fetch_tefas_price_fallback, option 1: the fund page
FallbackSessionFund ==
    /\ pc = "session_fund"
    /\ \E f \in NetOutcomes, marker \in Markers, elem \in XPathElements :
          /\ Attempt("session", SessionResults[f, marker, elem])
          /\ From(SessionResults[f, marker, elem], elem.text, marker)
    /\ UNCHANGED << page, skipped, mainVars, storeVars, envVars >>

\* fetch_tefas_price_fallback, option 2
FallbackFvt ==
    /\ pc = "fvt"
    /\ \E outcome \in NetOutcomes, elements \in CandidateLists :
          /\ Attempt("fvt", FvtResults[outcome, elements])
          /\ From(FvtResults[outcome, elements], FvtWinners[elements], "")
    /\ UNCHANGED << page, skipped, mainVars, storeVars, envVars >>

\* fetch_tefas_price_fallback, option 3
FallbackApi ==
    /\ pc = "api"
    /\ \E outcome \in NetOutcomes, body \in ApiBodies :
          /\ Attempt("api", ApiResults[outcome, body])
          /\ From(ApiResults[outcome, body], body.text, "")
    /\ UNCHANGED << page, skipped, mainVars, storeVars, envVars >>

\* fetch_tefas_price_fallback, option 4
FallbackUsdEur ==
    /\ pc = "usdeur"
    /\ \E outcome \in NetOutcomes, text \in PriceTexts :
          /\ Attempt("usdeur", UsdEurResults[outcome, text])
          /\ From(UsdEurResults[outcome, text], text, "")
    /\ UNCHANGED << page, skipped, mainVars, storeVars, envVars >>

\* fetch_tefas_price_fallback, option 5, and return None
FallbackHardcoded ==
    /\ pc = "hardcoded"
    /\ Attempt("hardcoded", HardcodedResults[ticker])
    /\ From(HardcodedResults[ticker], << >>, "")
    /\ UNCHANGED << page, skipped, mainVars, storeVars, envVars >>

(***************************************************************************)
(* main.                                                                   *)
(***************************************************************************)
\* ensure_directories: it creates the directories of the tickers in the
\* order of MARKETS, and a mkdir that raises ends it; created is the number
\* of directories it got through
EnsureDirectories(created) ==
    dirs' = dirs \cup {t \in observed : PositionOf(t) <= created}

\* main: ensure_directories and the counters.  The call of
\* ensure_directories is outside every try: an exception of it ends main.
MainStart ==
    /\ pc \in {"idle", "crashed"} /\ runs < MaxRuns
    /\ runs' = runs + 1
    /\ \E created \in 0..Len(Flattened) :
          /\ EnsureDirectories(created)
          /\ pc' = IF created = Len(Flattened) THEN "loop" ELSE "crashed"
    /\ idx' = 1
    /\ success_count' = 0
    /\ error_count' = 0
    /\ slept' = 0
    /\ processed' = << >>
    /\ UNCHANGED << observed, today, calls, chainVars, storeVars >>

\* NextTicker without the call of time.sleep
NextTicker_NoSleep ==
    /\ slept' = slept
    /\ processed' = Append(processed, ticker)
    /\ idx' = idx + 1
    /\ pc' = "loop"
    /\ page' = ""
    /\ price' = NoPrice
    /\ source' = ""
    /\ attempts' = << >>
    /\ skipped' = Nothing
    /\ origin' = NoOrigin

\* main: the end of the loop body (the sleep) and the step to the next ticker
NextTicker ==
    /\ slept' = slept + 1
    /\ processed' = Append(processed, ticker)
    /\ idx' = idx + 1
    /\ pc' = "loop"
    /\ page' = ""
    /\ price' = NoPrice
    /\ source' = ""
    /\ attempts' = << >>
    /\ skipped' = Nothing
    /\ origin' = NoOrigin

\* error_count after the except branch of main
CountException(n) == n + 1

\* main: a price was fetched and save_price wrote it under the day it read
\* from the clock
MainSavePrice ==
    /\ pc = "save" /\ price # NoPrice
    /\ IF ticker \in observed
       THEN /\ files' = [files EXCEPT
                            ![ticker] = SavePrice(@, price, today, NoFault)]
            /\ history' = [history EXCEPT ![ticker][today] = price]
            /\ latest_date' = [latest_date EXCEPT ![ticker] = today]
            /\ resave' = SaveCall(ticker, today, price,
                                   Resave(files[ticker], price, today))
       ELSE /\ resave' = NoCall
            /\ UNCHANGED << files, history, latest_date >>
    /\ success_count' = success_count + 1
    /\ error_count' = error_count
    /\ NextTicker
    /\ UNCHANGED envVars

\* main: a price was fetched and save_price raised; the except branch saves
\* an error page, whose own exception is caught by the inner try.
\* save_error_page reads the clock for its date and again for its listing.
MainSaveRaises ==
    /\ pc = "save" /\ price # NoPrice
    /\ ticker \in Followed
    /\ \E date \in Later(today) : \E now \in Later(date) :
          /\ today' = now
          /\ IF ticker \in observed
             THEN \E fault \in FailPoints, mode \in ErrorPageModes :
                     files' = [files EXCEPT ![ticker] =
                         SaveErrorPage(SavePrice(@, price, today, fault),
                                       date, now, mode)]
             ELSE files' = files
    /\ resave' = NoCall
    /\ success_count' = success_count
    /\ error_count' = CountException(error_count)
    /\ NextTicker
    /\ UNCHANGED << history, latest_date, observed, dirs, runs, calls >>

\* main: no price was fetched; save_error_page, and when it raises the except
\* branch calls it again, inside the inner try
MainSaveError ==
    /\ pc = "save" /\ price = NoPrice
    /\ \E first \in ErrorPageModes :
       \E second \in IF first.raises THEN ErrorPageModes ELSE {first} :
       \E date \in IF first.raises THEN Later(today) ELSE {today} :
       \E now \in Later(date) :
          /\ today' = now
          /\ IF ticker \in observed
             THEN files' = [files EXCEPT ![ticker] =
                                 SaveErrorPage(@, date, now, second)]
             ELSE files' = files
          /\ error_count' = IF first.raises
                            THEN CountException(error_count)
                            ELSE error_count + 1
    /\ resave' = NoCall
    /\ success_count' = success_count
    /\ NextTicker
    /\ UNCHANGED << history, latest_date, observed, dirs, runs, calls >>

\* main: the loops are over, the summary is printed
MainFinish ==
    /\ pc = "loop" /\ idx > Len(Flattened)
    /\ pc' = "idle"
    /\ UNCHANGED << mainVars, chainVars, storeVars, envVars >>

MainStep ==
    \/ TefasPrimary
    \/ TefasXPath
    \/ TefasHeuristic
    \/ FallbackSessionMain
    \/ FallbackSessionFund
    \/ FallbackFvt
    \/ FallbackApi
    \/ FallbackUsdEur
    \/ FallbackHardcoded
    \/ MainSavePrice
    \/ MainSaveRaises
    \/ MainSaveError
    \/ MainFinish

\* the days pass
NextDay ==
    /\ today < MaxDay
    /\ today' = today + 1
    /\ UNCHANGED << observed, dirs, runs, calls, pc, mainVars,
                    chainVars, storeVars >>

\* the runs of main
Next ==
    \/ MainStart
    \/ MainStep
    \/ NextDay

Spec == Init /\ [][Next]_vars

(***************************************************************************)
(* The functions of the store, called on their own.                        *)
(***************************************************************************)
\* ensure_directories()
EnsureDirectoriesCalled ==
    /\ \E created \in 0..Len(Flattened) : EnsureDirectories(created)
    /\ UNCHANGED << observed, today, runs, calls, pc, mainVars,
                    chainVars, storeVars >>

\* save_price(market, ticker, price, date), with any date; it raises at its
\* first open when the directory of the ticker does not exist
SavePriceDated ==
    /\ calls < MaxCalls
    /\ calls' = calls + 1
    /\ \E t \in observed, p \in BackfillPrices, d \in Dates :
       \E fault \in IF t \in dirs THEN {NoFault} \cup FailPoints
                    ELSE {FirstOpen} :
          /\ files' = [files EXCEPT ![t] = SavePrice(@, p, d, fault)]
          /\ IF fault = NoFault
             THEN /\ history' = [history EXCEPT ![t][d] = p]
                  /\ latest_date' = [latest_date EXCEPT ![t] = d]
                  /\ resave' = SaveCall(t, d, p, Resave(files[t], p, d))
             ELSE /\ resave' = NoCall
                  /\ UNCHANGED << history, latest_date >>
    /\ UNCHANGED << observed, dirs, today, runs, pc, mainVars,
                    chainVars >>

\* save_error_page(market, ticker, error_message, date), with any date; in
\* a directory that does not exist it finds no latest.txt and its first open
\* raises
SaveErrorPageDated ==
    /\ calls < MaxCalls
    /\ calls' = calls + 1
    /\ \E t \in observed, d \in Dates, now \in Later(today) :
       \E mode \in IF t \in dirs THEN ErrorPageModes
                   ELSE {ErrorPageMode(TRUE, TRUE, TRUE, NoFault),
                         ErrorPageMode(FALSE, TRUE, TRUE, FirstOpen)} :
          /\ files' = [files EXCEPT ![t] = SaveErrorPage(@, d, now, mode)]
          /\ today' = now
    /\ resave' = NoCall
    /\ UNCHANGED << observed, dirs, runs, pc, mainVars, chainVars,
                    history, latest_date >>

\* the calls on the store
StoreNext ==
    \/ EnsureDirectoriesCalled
    \/ SavePriceDated
    \/ SaveErrorPageDated
    \/ NextDay

StoreSpec == StoreInit /\ [][StoreNext]_vars

(***************************************************************************)
(* Helpers of the properties.                                              *)
(***************************************************************************)
Range(seq) == {seq[i] : i \in DOMAIN seq}
Last(seq) == seq[Len(seq)]
MaxOf(S) == CHOOSE x \in S : \A y \in S : y <= x

\* the priority order of the strategies of a fund
StrategyOrder ==
    << "xpath", "heuristic", "session", "fvt", "api", "usdeur", "hardcoded" >>
Rank(s) == CHOOSE i \in DOMAIN StrategyOrder : StrategyOrder[i] = s
FallbackStrategies == {"session", "fvt", "api", "usdeur", "hardcoded"}

\* main is handling a fund of the tr-tefas market
AtFund == idx <= Len(Flattened) /\ CrawlerOf(market) = "tefas"

\* main has completed a run
MainCompleted == pc = "idle" /\ runs > 0

\* the plausible range of a fund price: (0.1, 10000)
InFundRange(p) == PriceLt(P(0, 100000), p) /\ PriceLt(p, P(10000, 0))

(***************************************************************************)
(* C1.  The strategies of a fund run in the priority order xpath,          *)
(* heuristic, session, fvt, api, usdeur, hardcoded, and the first one that *)
(* yields a valid value wins: its value is what fetch_tefas_price returns, *)
(* no strategy runs after it, every strategy of the fallback ranked before *)
(* it has run and failed, no strategy that finds a value in its document   *)
(* is passed over, and the value returned is in the plausible range of a   *)
(* fund.  (The two strategies of the primary document have nothing to read *)
(* when the request failed or the document holds a challenge marker.)      *)
(***************************************************************************)
C1_FirstSuccessWins ==
    AtFund =>
        /\ \A i, j \in DOMAIN attempts :
              i < j => Rank(attempts[i]) < Rank(attempts[j])
        /\ price # NoPrice =>
              /\ pc = "save"
              /\ source = Last(attempts)
              /\ InFundRange(price)
        /\ skipped.result # "value"
        /\ pc = "save" =>
              /\ attempts # << >>
              /\ \A s \in FallbackStrategies :
                    Rank(s) < Rank(Last(attempts)) => s \in Range(attempts)
              /\ "xpath" \in Range(attempts) <=> page = "none"
              /\ price = NoPrice => Last(attempts) = "hardcoded"

(***************************************************************************)
(* C2.  Whatever strategy produced it, a value outside the plausible range *)
(* (0.1, 10000) of a fund is never returned by fetch_tefas_price, and so   *)
(* never passed to save_price.                                             *)
(***************************************************************************)
C2_OutOfRangeNeverReturned ==
    (AtFund /\ pc = "save" /\ price # NoPrice) => InFundRange(price)

(***************************************************************************)
(* C3.  A value of the hardcoded table is not a success: main does not     *)
(* count it in success_count and save_price does not record it.            *)
(***************************************************************************)
C3_HardcodedNotRecorded ==
    [][(pc = "save" /\ source = "hardcoded") =>
          /\ success_count' = success_count
          /\ history' = history
          /\ ticker \in observed =>
                files'[ticker].latest_txt = files[ticker].latest_txt]_vars

(***************************************************************************)
(* C4.  When every network strategy of a fund has failed, main takes the   *)
(* save_error_page path, and the price on the degraded page is the content *)
(* of latest.txt.                                                          *)
(***************************************************************************)
C4_AllFailedIsDegraded ==
    [][(/\ AtFund /\ pc = "save" /\ idx' # idx
        /\ "hardcoded" \in Range(attempts)) =>
          /\ error_count' = error_count + 1
          /\ success_count' = success_count
          /\ ticker \in observed =>
                /\ files'[ticker].latest_txt = files[ticker].latest_txt
                /\ \A d \in Dates :
                      (/\ files'[ticker].html[d] # files[ticker].html[d]
                       /\ files'[ticker].html[d].kind = "degraded_page") =>
                          files'[ticker].html[d].price
                              = files[ticker].latest_txt.price]_vars

(***************************************************************************)
(* C5.  A failed resolution leaves the date-keyed record unchanged: a      *)
(* price recorded for a date is still the record of that date after a      *)
(* later failed run.                                                       *)
(***************************************************************************)
C5_DegradedKeepsRecord ==
    [][(pc = "save" /\ price = NoPrice /\ ticker \in observed) =>
          \A d \in Dates :
              files[ticker].txt[d].kind = "price" =>
                  /\ files'[ticker].txt[d] = files[ticker].txt[d]
                  /\ files'[ticker].html[d] = files[ticker].html[d]]_vars

(***************************************************************************)
(* C6.  latest.txt holds the price recorded for the greatest date among    *)
(* the dates save_price has recorded, whatever the order of the calls.     *)
(***************************************************************************)
C6_LatestIsGreatestDate ==
    \A t \in observed :
        LET recorded == {d \in Dates : history[t][d] # NoPrice}
        IN  recorded # {} =>
                files[t].latest_txt = PriceTxt(history[t][MaxOf(recorded)])

(***************************************************************************)
(* C7.  The date a degraded page displays is the date of the observation   *)
(* whose value is in latest.txt.                                           *)
(***************************************************************************)
C7_DegradedShowsDateOfLatest ==
    [][(/\ pc = "save" /\ idx' # idx /\ ticker \in observed
        /\ latest_date[ticker] # 0
        /\ files[ticker].latest_txt
               = PriceTxt(history[ticker][latest_date[ticker]])) =>
          \A d \in Dates :
              (/\ files'[ticker].html[d] # files[ticker].html[d]
               /\ files'[ticker].html[d].kind = "degraded_page"
               /\ ~files'[ticker].html[d].cut) =>
                  files'[ticker].html[d].date = latest_date[ticker]]_vars

(***************************************************************************)
(* C8.  After main has completed, the latest.txt of every ticker of the    *)
(* tr-tefas market exists and holds a number, whatever the strategies      *)
(* answered during the run and whether or not a run before it had stored a *)
(* price.                                                                  *)
(***************************************************************************)
C8_LatestAlwaysExists ==
    MainCompleted =>
        \A e \in DOMAIN Flattened :
            (Flattened[e].market = "tr-tefas"
                /\ Flattened[e].ticker \in observed) =>
                /\ files[Flattened[e].ticker].latest_txt.kind = "price"
                /\ ~files[Flattened[e].ticker].latest_txt.cut

(***************************************************************************)
(* C9.  No exception ends a run: no call of main is ended by an exception, *)
(* main handles the tickers one by one in the order of the configuration,  *)
(* counts each one once as a success or an error, and at its end           *)
(* success_count + error_count is the number of tickers.                   *)
(***************************************************************************)
C9_NoErrorIsFatal ==
    /\ pc # "crashed"
    /\ processed = [i \in 1..(idx - 1) |-> Flattened[i].ticker]
    /\ success_count + error_count = Len(processed)
    /\ MainCompleted =>
          /\ Len(processed) = Len(Flattened)
          /\ success_count + error_count = Len(Flattened)

(***************************************************************************)
(* C10.  A request that never responds does not stall the run: no caller   *)
(* waits for ever.                                                         *)
(***************************************************************************)
C10_NoRequestBlocks == pc # "blocked"

(***************************************************************************)
(* C11.  save_price is idempotent per (ticker, date): after a completed    *)
(* call there is exactly one record of the date, <date>.txt and            *)
(* <date>.html, and it holds the price of the call; the records of the     *)
(* other dates are untouched; a call that repeats the call before it with  *)
(* the same ticker, date and price leaves the directory as that call left  *)
(* it; a call for a date recorded with another price leaves the one record *)
(* holding the price of the second call.                                   *)
(***************************************************************************)
SavePriceCompleted ==
    /\ resave' # NoCall
    /\ \/ pc = "save" /\ success_count' = success_count + 1
       \/ calls' = calls + 1

C11_SavePriceIdempotent ==
    [][SavePriceCompleted =>
          LET t == resave'.ticker
              d == resave'.date
              p == resave'.price
              before == files[t]
              after == files'[t]
          IN  /\ after.txt[d] = PriceTxt(p)
              /\ after.html[d] = PricePage(p, d)
              /\ Cardinality({i \in DOMAIN after.mtime : after.mtime[i] = d}) = 1
              /\ \A e \in Dates \ {d} :
                    /\ after.txt[e] = before.txt[e]
                    /\ after.html[e] = before.html[e]
              /\ \A u \in observed \ {t} : files'[u] = files[u]
              /\ resave'.found = "same" <=> JustSaved(before, p, d)
              /\ resave'.found = "same" => files' = files
              /\ resave'.found = "different" =>
                    /\ before.txt[d].kind = "price"
                    /\ before.txt[d].price # p
                    /\ history'[t][d] = p]_vars

\* save_price has been called again with the ticker, date and price of the
\* call before it, the second call of the behaviour
C11_Witness ==
    /\ "BDS" \in observed
    /\ resave.found = "same" /\ calls = 2
    /\ resave.ticker = "BDS" /\ resave.price = P(12, 500000)
    /\ JustSaved(files["BDS"], P(12, 500000), resave.date)

(***************************************************************************)
(* The number a price text denotes, read as a person reads it.             *)
(***************************************************************************)
\* the numeric part of a price text: from its first digit, the longest run
\* of digits, dots and commas
RECURSIVE NumericRunEnd(_, _)
NumericRunEnd(s, i) ==
    IF i <= Len(s) /\ s[i] \in Digits \cup {".", ","}
    THEN NumericRunEnd(s, i + 1) ELSE i - 1

NumericToken(s) ==
    LET digits == {i \in DOMAIN s : s[i] \in Digits}
    IN  IF digits = {} THEN << >>
        ELSE LET first == CHOOSE i \in digits : \A j \in digits : i <= j
             IN  SubSeq(s, first, NumericRunEnd(s, first))

\* the part of a numeric text before its first comma, and the part after it
BeforeComma(s) ==
    IF Contains(s, ",")
    THEN SubSeq(s, 1, (CHOOSE i \in DOMAIN s :
                          s[i] = "," /\ \A j \in 1..(i - 1) : s[j] # ",") - 1)
    ELSE s
AfterComma(s) ==
    IF Contains(s, ",") THEN SubSeq(s, Len(BeforeComma(s)) + 2, Len(s))
    ELSE << >>

\* digit groups separated by thousands dots (a first group of one to three
\* digits, then groups of three), or digits alone
ThousandsGrouped(s) ==
    /\ s # << >>
    /\ \/ \A i \in DOMAIN s : s[i] \in Digits
       \/ /\ Len(s) % 4 # 0
          /\ \A i \in DOMAIN s :
                IF (Len(s) - i + 1) % 4 = 0 THEN s[i] = "."
                ELSE s[i] \in Digits

\* a well-formed number of the Turkish locale: thousands dots, at most one
\* decimal comma followed by one to six digits
WellFormedTurkish(s) ==
    /\ ThousandsGrouped(BeforeComma(s))
    /\ Contains(s, ",") =>
          /\ AfterComma(s) # << >>
          /\ Len(AfterComma(s)) <= 6
          /\ \A i \in DOMAIN AfterComma(s) : AfterComma(s)[i] \in Digits

\* the number a well-formed text denotes
Denoted(s) ==
    P(DigitsValue(DigitValues(Remove(BeforeComma(s), "."))),
      DigitsValue(DigitValues(AfterComma(s)))
          * Pow10(6 - Len(AfterComma(s))))

ScrapeStrategies == {"xpath", "heuristic", "session", "fvt"}

(***************************************************************************)
(* C12.  The price a scrape strategy returns is the number its text        *)
(* denotes: when the numeric part of the text is a well-formed number of   *)
(* the Turkish locale (thousands dots, at most one decimal comma), with or *)
(* without other characters around it, the price returned is that number.  *)
(***************************************************************************)
C12_NormalizationExact ==
    (/\ pc = "save" /\ source \in ScrapeStrategies
     /\ WellFormedTurkish(NumericToken(origin.text))) =>
        price = Denoted(NumericToken(origin.text))

\* the decimal separators left in a text after the substitution: its commas
DecimalSeparators(s) == Cardinality({i \in DOMAIN s : s[i] = ","})

(***************************************************************************)
(* C13.  A price text with more than one decimal separator is a parse      *)
(* failure: the XPath strategy of fetch_tefas_price returns no value from  *)
(* such a text, so a price the strategy returned was never read from one.  *)
(***************************************************************************)
C13_MultiSeparatorRejected ==
    (pc = "save" /\ source = "xpath") => DecimalSeparators(origin.text) <= 1

(***************************************************************************)
(* C14.  A TEFAS document with a challenge marker ("captcha" or            *)
(* "challenge") is never extracted from: no price returned by a strategy   *)
(* that scrapes a TEFAS document, in fetch_tefas_price or in the session   *)
(* scrape of fetch_tefas_price_fallback, was read from such a document.    *)
(***************************************************************************)
TefasScrapes == {"xpath", "heuristic", "session"}

C14_ChallengeShortCircuits ==
    (pc = "save" /\ source \in TefasScrapes) => origin.marker = "none"

(***************************************************************************)
(* C15.  One pacing sleep separates two consecutive tickers: main has      *)
(* slept once for every ticker it has finished, so when the fetch of the   *)
(* ticker at position idx begins or is under way exactly idx - 1 sleeps    *)
(* have been made, however the tickers before it ended.                    *)
(***************************************************************************)
C15_OneSleepBetweenTickers ==
    /\ slept = Len(processed)
    /\ pc # "idle" => slept = idx - 1

\* the fetch of BDS, the seventh fund, is under way: the fetch of IIE
\* before it failed and its error page was written whole, the five funds
\* before IIE ended in a success, and six sleeps have been made
C15_Witness ==
    /\ "IIE" \in observed
    /\ runs = 1 /\ idx = 7 /\ pc = "xpath"
    /\ slept = 6 /\ error_count = 1 /\ success_count = 5
    /\ files["IIE"].txt[today].kind = "error"
    /\ files["IIE"].html[today] = MinimalErrorPage(today)

(***************************************************************************)
(* C16.  latest.txt is written by save_price alone: for every ticker it is *)
(* absent until a save_price has written it, and then it holds the price   *)
(* passed to the most recent save_price that reached it, never an error    *)
(* marker; a step of main that only calls save_error_page leaves           *)
(* latest.txt and latest.html as they were, and one that calls it after a  *)
(* save_price that raised leaves them as that save_price did.              *)
(***************************************************************************)
LatestIsLastSaved ==
    \A t \in observed :
        IF latest_date[t] = 0
        THEN files[t].latest_txt = NoFile
        ELSE /\ files[t].latest_txt = PriceTxt(history[t][latest_date[t]])
             /\ history[t][latest_date[t]] # NoPrice

ErrorPathKeepsLatest ==
    (/\ pc = "save" /\ idx' # idx /\ success_count' = success_count
     /\ ticker \in observed) =>
        IF price = NoPrice
        THEN /\ files'[ticker].latest_txt = files[ticker].latest_txt
             /\ files'[ticker].latest_html = files[ticker].latest_html
        ELSE /\ files'[ticker].latest_txt
                    \in {files[ticker].latest_txt, EmptyFile,
                         Cut(PriceTxt(price))}
             /\ files'[ticker].latest_html
                    \in {files[ticker].latest_html, EmptyFile,
                         Cut(PricePage(price, today)),
                         PricePage(price, today)}

C16_LatestOnlyBySavePrice ==
    /\ []LatestIsLastSaved
    /\ [][ErrorPathKeepsLatest]_vars

=============================================================================
